---- MODULE Spec2Model ----
(***************************************************************************)
(* Model of automated_llm_eval/chat_model.py: the retrying invoker         *)
(* (ChatModel.chat_completion / async_chat_completion), the sequential     *)
(* runner (chat_completions) and the bounded-concurrency dispatcher        *)
(* (async_chat_completions).                                               *)
(*                                                                         *)
(* A request is identified by its position in messages_list.  The remote   *)
(* client is a stub: each call either raises ("raise") or returns a        *)
(* ChatCompletion whose content is "good" or "bad".  The caller-supplied   *)
(* validation callback is either the module default (accepts everything)  *)
(* or "strict" (accepts only "good" content).  output_format is left at    *)
(* its default (None), for which the formatter returns the raw completion. *)
(***************************************************************************)
EXTENDS Integers, Sequences, FiniteSets, TLC

\* Bounds of the model.
MaxN == 2
MaxRetries == 2
MaxConcurrent == 2

Outcomes == {"raise", "bad", "good"}
Callbacks == {"default", "strict"}

\* The value None of Python.
None == [kind |-> "None"]

VARIABLES
    mode,            \* "sync": chat_completions runs; "async": async_chat_completions runs
    messages_list,   \* the batch: messages_list[i] is request i
    num_retries,     \* kwargs["num_retries"] given by the caller
    num_concurrent,  \* capacity of the BoundedSemaphore
    timeout,         \* "None" or "set": the timeout argument of async_chat_completions
    validation_cb,   \* kwargs["validation_callback"] given by the caller
    semaphore,       \* number of free slots of the BoundedSemaphore
    pc,              \* pc[i]: "pending" | "calling" (remote call in flight) | "done"
    budget,          \* budget[i]: num_retries of the invoker frame now running for request i
    vcb,             \* vcb[i]: validation_callback of the invoker frame now running
    calls,           \* calls[i]: outcomes of the remote calls made so far for request i
    retryArgs,       \* retryArgs[i]: the arguments attempt_retry was called with, in order
    inflight,        \* inflight[i]: remote calls of request i issued and not yet returned
    taskResult,      \* taskResult[i]: value task i resolved to (async)
    completed,       \* tasks in the order they finished (queue of asyncio.as_completed)
    observed,        \* completions the progress loop has consumed
    collector,       \* position of generate_concurrent
    cc_list,         \* the list being accumulated (sync) or gathered (async)
    dispatch         \* "waiting" | "returned" | "TimeoutError" | "ValueError"

inputs == <<mode, messages_list, num_retries, num_concurrent, timeout, validation_cb>>
frames == <<budget, vcb, calls, retryArgs, inflight>>
vars == <<mode, messages_list, num_retries, num_concurrent, timeout, validation_cb,
          semaphore, pc, budget, vcb, calls, retryArgs, inflight, taskResult,
          completed, observed, collector, cc_list, dispatch>>

N == Len(messages_list)
Tasks == 1..N

(***************************************************************************)
(* Pure parts of the invoker.                                              *)
(***************************************************************************)

\* The stubbed remote client: the ChatCompletion returned for `messages`.
create(messages, outcome) == [kind |-> "ChatCompletion", prompt |-> messages, content |-> outcome]

\* output_format = None: the raw completion is returned unchanged.
parse_chat_completion_response(cc) == cc

\* The module's default validation callback accepts every response.
validation_callback(messages, response) == TRUE

\* Application of the frame's validation callback.
Validate(cb, messages, response) ==
    IF cb = "default" THEN validation_callback(messages, response)
    ELSE response.content = "good"

\* chat_completion.attempt_retry: recurse into chat_completion when the
\* argument is positive, else give up with None.  The recursive call passes
\* updated_kwargs, output_format and num_retries only, so the new frame runs
\* with the default validation callback.
attempt_retry(n) ==
    IF n > 0
    THEN [recurse |-> TRUE, retried |-> TRUE, num_retries |-> n, cb |-> "default", value |-> None]
    ELSE [recurse |-> FALSE, retried |-> TRUE, num_retries |-> n, cb |-> "default", value |-> None]

\* chat_completion with the verdict of the validation callback ignored.
chat_completion_unvalidated(messages, n, cb, outcome) ==
    IF outcome = "raise"
    THEN attempt_retry(n - 1)
    ELSE [recurse |-> FALSE, retried |-> FALSE, num_retries |-> n, cb |-> cb,
          value |-> parse_chat_completion_response(create(messages, outcome))]

\* chat_completion with the budget passed on without the decrement.
chat_completion_no_decrement(messages, n, cb, outcome) ==
    IF outcome = "raise"
    THEN attempt_retry(n)
    ELSE LET response == parse_chat_completion_response(create(messages, outcome))
         IN  IF Validate(cb, messages, response)
             THEN [recurse |-> FALSE, retried |-> FALSE, num_retries |-> n, cb |-> cb,
                   value |-> response]
             ELSE attempt_retry(n)

\* chat_completion, from the return of the remote call to the frame's exit.
chat_completion(messages, n, cb, outcome) ==
    IF outcome = "raise"
    THEN attempt_retry(n - 1)
    ELSE LET response == parse_chat_completion_response(create(messages, outcome))
         IN  IF Validate(cb, messages, response)
             THEN [recurse |-> FALSE, retried |-> FALSE, num_retries |-> n, cb |-> cb,
                   value |-> response]
             ELSE attempt_retry(n - 1)

\* chat_completion run to its end against a script of remote outcomes, the
\* first k of which have been consumed: each recursive call of attempt_retry
\* takes the next outcome.  ended is FALSE when the script runs out while a
\* frame is still at its remote call.
RECURSIVE chat_completion_on(_, _, _, _, _)
chat_completion_on(messages, n, cb, outcomes, k) ==
    IF k = Len(outcomes)
    THEN [calls |-> k, ended |-> FALSE, value |-> None]
    ELSE LET step == chat_completion(messages, n, cb, outcomes[k + 1])
         IN  IF step.recurse
             THEN chat_completion_on(messages, step.num_retries, step.cb, outcomes, k + 1)
             ELSE [calls |-> k + 1, ended |-> TRUE, value |-> step.value]

\* chat_completions run against one script of remote outcomes per request.
chat_completions_on(msgs, n, cb, scripts) ==
    [i \in 1..Len(msgs) |-> chat_completion_on(msgs[i], n, cb, scripts[i], 0).value]

\* attempt_retry that recurses while the argument is not negative.
async_attempt_retry_inclusive(n) ==
    IF n >= 0
    THEN [recurse |-> TRUE, retried |-> TRUE, num_retries |-> n, cb |-> "default", value |-> None]
    ELSE [recurse |-> FALSE, retried |-> TRUE, num_retries |-> n, cb |-> "default", value |-> None]

\* async_chat_completion.attempt_retry.
async_attempt_retry(n) ==
    IF n > 0
    THEN [recurse |-> TRUE, retried |-> TRUE, num_retries |-> n, cb |-> "default", value |-> None]
    ELSE [recurse |-> FALSE, retried |-> TRUE, num_retries |-> n, cb |-> "default", value |-> None]

\* async_chat_completion with the test of did_pass_validation inverted.
async_chat_completion_inverted(messages, n, cb, outcome) ==
    IF outcome = "raise"
    THEN async_attempt_retry(n - 1)
    ELSE LET response == parse_chat_completion_response(create(messages, outcome))
         IN  IF ~Validate(cb, messages, response)
             THEN [recurse |-> FALSE, retried |-> FALSE, num_retries |-> n, cb |-> cb,
                   value |-> response]
             ELSE async_attempt_retry(n - 1)

\* async_chat_completion, from the return of the awaited call to the frame's exit.
async_chat_completion(messages, n, cb, outcome) ==
    IF outcome = "raise"
    THEN async_attempt_retry(n - 1)
    ELSE LET response == parse_chat_completion_response(create(messages, outcome))
         IN  IF Validate(cb, messages, response)
             THEN [recurse |-> FALSE, retried |-> FALSE, num_retries |-> n, cb |-> cb,
                   value |-> response]
             ELSE async_attempt_retry(n - 1)

\* `async with semaphore`, entry: a slot is taken only while one is free.
slot_free_off_by_one(sem) == sem >= 0
slot_free(sem) == sem > 0

\* `async with semaphore`, exit: the slot is released whatever value (a
\* response or None) the invoker ended with.
release_on_success_only(sem, value) == IF value = None THEN sem ELSE sem + 1
release(sem, value) == sem + 1

(***************************************************************************)
(* Initial state: the arguments of the batch call, all tasks created.      *)
(***************************************************************************)
Init ==
    /\ mode \in {"sync", "async"}
    /\ messages_list \in {[i \in 1..n |-> i] : n \in 0..MaxN}
    /\ num_retries \in 0..MaxRetries
    /\ validation_cb \in Callbacks
    /\ num_concurrent \in (IF mode = "async" THEN 1..MaxConcurrent ELSE {1})
    /\ timeout \in (IF mode = "async" THEN {"None", "set"} ELSE {"None"})
    /\ semaphore = num_concurrent
    /\ pc = [i \in Tasks |-> "pending"]
    /\ budget = [i \in Tasks |-> num_retries]
    /\ vcb = [i \in Tasks |-> validation_cb]
    /\ calls = [i \in Tasks |-> <<>>]
    /\ retryArgs = [i \in Tasks |-> <<>>]
    /\ inflight = [i \in Tasks |-> 0]
    /\ taskResult = [i \in Tasks |-> None]
    /\ completed = <<>>
    /\ observed = 0
    /\ collector = IF mode = "async" THEN "as_completed" ELSE "unused"
    /\ cc_list = <<>>
    /\ dispatch = "waiting"

(***************************************************************************)
(* async_chat_completions                                                  *)
(***************************************************************************)

\* generation_task started again for a task that has already resolved.
acquire_relaunch(i) ==
    /\ mode = "async"
    /\ pc[i] \in {"pending", "done"}
    /\ slot_free(semaphore)
    /\ \A j \in Tasks : j < i => pc[j] # "pending"
    /\ semaphore' = semaphore - 1
    /\ pc' = [pc EXCEPT ![i] = "calling"]
    /\ budget' = [budget EXCEPT ![i] = num_retries]
    /\ vcb' = [vcb EXCEPT ![i] = validation_cb]
    /\ inflight' = [inflight EXCEPT ![i] = @ + 1]
    /\ UNCHANGED <<inputs, calls, retryArgs, taskResult, completed, observed,
                   collector, cc_list, dispatch>>

\* generation_task: `async with semaphore`, then enter async_chat_completion
\* and await the first remote call.  Waiters are served in FIFO order and
\* the tasks were created in list order.
acquire(i) ==
    /\ mode = "async"
    /\ pc[i] = "pending"
    /\ slot_free(semaphore)
    /\ \A j \in Tasks : j < i => pc[j] # "pending"
    /\ semaphore' = semaphore - 1
    /\ pc' = [pc EXCEPT ![i] = "calling"]
    /\ budget' = [budget EXCEPT ![i] = num_retries]
    /\ vcb' = [vcb EXCEPT ![i] = validation_cb]
    /\ inflight' = [inflight EXCEPT ![i] = @ + 1]
    /\ UNCHANGED <<inputs, calls, retryArgs, taskResult, completed, observed,
                   collector, cc_list, dispatch>>

\* The awaited remote call of task i returns or raises; the invoker runs up
\* to its next await (the remote call of the recursive frame) or to the end
\* of generation_task, where the semaphore is released.
async_return(i, outcome) ==
    /\ mode = "async"
    /\ pc[i] = "calling"
    /\ LET step == async_chat_completion(messages_list[i], budget[i], vcb[i], outcome)
       IN  /\ calls' = [calls EXCEPT ![i] = Append(@, outcome)]
           /\ retryArgs' = [retryArgs EXCEPT
                               ![i] = IF step.retried THEN Append(@, step.num_retries) ELSE @]
           /\ inflight' = [inflight EXCEPT ![i] = (@ - 1) + (IF step.recurse THEN 1 ELSE 0)]
           /\ IF step.recurse
              THEN /\ budget' = [budget EXCEPT ![i] = step.num_retries]
                   /\ vcb' = [vcb EXCEPT ![i] = step.cb]
                   /\ UNCHANGED <<pc, taskResult, semaphore, completed>>
              ELSE /\ pc' = [pc EXCEPT ![i] = "done"]
                   /\ taskResult' = [taskResult EXCEPT ![i] = step.value]
                   /\ semaphore' = release(semaphore, step.value)
                   /\ completed' = Append(completed, i)
                   /\ UNCHANGED <<budget, vcb>>
    /\ UNCHANGED <<inputs, observed, collector, cc_list, dispatch>>

\* generate_concurrent: one iteration of the progress loop over as_completed.
progress ==
    /\ collector = "as_completed"
    /\ observed < Len(completed)
    /\ observed' = observed + 1
    /\ UNCHANGED <<inputs, semaphore, pc, frames, taskResult, completed, collector,
                   cc_list, dispatch>>

\* generate_concurrent: the progress loop is exhausted, asyncio.wait(task_list)
\* is called.  asyncio.wait raises ValueError for an empty set of tasks.
wait_all ==
    /\ collector = "as_completed"
    /\ observed = N
    /\ IF N = 0
       THEN collector' = "ValueError" /\ dispatch' = "ValueError"
       ELSE collector' = "wait" /\ UNCHANGED dispatch
    /\ UNCHANGED <<inputs, semaphore, pc, frames, taskResult, completed, observed, cc_list>>

\* generate_concurrent: cc_list = [await task for task in task_list]; the
\* collector task finishes and wait_for hands its result to the caller.
gather ==
    /\ collector = "wait"
    /\ \A i \in Tasks : pc[i] = "done"
    /\ cc_list' = [i \in Tasks |-> taskResult[i]]
    /\ collector' = "done"
    /\ dispatch' = "returned"
    /\ UNCHANGED <<inputs, semaphore, pc, frames, taskResult, completed, observed>>

\* A dispatcher that, at the deadline, hands back whatever has resolved.
timeout_returns_partial ==
    /\ mode = "async"
    /\ timeout = "set"
    /\ dispatch = "waiting"
    /\ collector' = "cancelled"
    /\ dispatch' = "returned"
    /\ cc_list' = [i \in Tasks |-> taskResult[i]]
    /\ UNCHANGED <<inputs, semaphore, pc, frames, taskResult, completed, observed>>

\* asyncio.wait_for(tsk, timeout): the deadline passes before the collector
\* task is done.  wait_for cancels the collector and raises TimeoutError.
\* The collector is suspended in as_completed or asyncio.wait, neither of
\* which cancels the tasks of task_list.
timeout_fires ==
    /\ mode = "async"
    /\ timeout = "set"
    /\ dispatch = "waiting"
    /\ collector' = "cancelled"
    /\ dispatch' = "TimeoutError"
    /\ UNCHANGED <<inputs, semaphore, pc, frames, taskResult, completed, observed, cc_list>>

(***************************************************************************)
(* chat_completions                                                        *)
(***************************************************************************)

\* The loop of chat_completions enters chat_completion for the next request.
chat_completions_next(i) ==
    /\ mode = "sync"
    /\ pc[i] = "pending"
    /\ i = Len(cc_list) + 1
    /\ pc' = [pc EXCEPT ![i] = "calling"]
    /\ budget' = [budget EXCEPT ![i] = num_retries]
    /\ vcb' = [vcb EXCEPT ![i] = validation_cb]
    /\ inflight' = [inflight EXCEPT ![i] = @ + 1]
    /\ UNCHANGED <<inputs, semaphore, calls, retryArgs, taskResult, completed, observed,
                   collector, cc_list, dispatch>>

\* The blocking remote call of the running chat_completion frame returns or
\* raises; the frame either recurses (next remote call) or returns to the loop.
sync_return(i, outcome) ==
    /\ mode = "sync"
    /\ pc[i] = "calling"
    /\ LET step == chat_completion(messages_list[i], budget[i], vcb[i], outcome)
       IN  /\ calls' = [calls EXCEPT ![i] = Append(@, outcome)]
           /\ retryArgs' = [retryArgs EXCEPT
                               ![i] = IF step.retried THEN Append(@, step.num_retries) ELSE @]
           /\ inflight' = [inflight EXCEPT ![i] = (@ - 1) + (IF step.recurse THEN 1 ELSE 0)]
           /\ IF step.recurse
              THEN /\ budget' = [budget EXCEPT ![i] = step.num_retries]
                   /\ vcb' = [vcb EXCEPT ![i] = step.cb]
                   /\ UNCHANGED <<pc, cc_list>>
              ELSE /\ pc' = [pc EXCEPT ![i] = "done"]
                   /\ cc_list' = Append(cc_list, step.value)
                   /\ UNCHANGED <<budget, vcb>>
    /\ UNCHANGED <<inputs, semaphore, taskResult, completed, observed, collector, dispatch>>

\* chat_completions: the loop is over, cc_list is returned.
chat_completions_return ==
    /\ mode = "sync"
    /\ dispatch = "waiting"
    /\ Len(cc_list) = N
    /\ dispatch' = "returned"
    /\ UNCHANGED <<inputs, semaphore, pc, frames, taskResult, completed, observed,
                   collector, cc_list>>

Next ==
    \/ \E i \in Tasks : acquire(i)
    \/ \E i \in Tasks, outcome \in Outcomes : async_return(i, outcome)
    \/ progress
    \/ wait_all
    \/ gather
    \/ timeout_fires
    \/ \E i \in Tasks : chat_completions_next(i)
    \/ \E i \in Tasks, outcome \in Outcomes : sync_return(i, outcome)
    \/ chat_completions_return

Spec == Init /\ [][Next]_vars

\* The timer wait_for sets on the event loop fires once the deadline passes.
FairSpec == Spec /\ WF_vars(timeout_fires)

(***************************************************************************)
(* Properties                                                              *)
(***************************************************************************)

\* The value request i resolved to (defined once pc[i] = "done").
Result(i) == IF mode = "sync" THEN cc_list[i] ELSE taskResult[i]

Holders == {i \in Tasks : pc[i] = "calling"}
AllDone == \A i \in Tasks : pc[i] = "done"
AllCalls(i, outcome) == \A j \in 1..Len(calls[i]) : calls[i][j] = outcome

\* C1: whenever async_chat_completions ends other than by its timeout, it has
\* returned a list of exactly N entries whose entry i is the value task i
\* resolved to, a response to request i or None, whatever the order in which
\* the tasks completed and the progress loop observed them.
C1_dispatch_index_aligned ==
    (mode = "async" /\ dispatch \notin {"waiting", "TimeoutError"}) =>
        /\ dispatch = "returned"
        /\ Len(cc_list) = N
        /\ \A i \in Tasks :
              /\ cc_list[i] = taskResult[i]
              /\ cc_list[i] # None => cc_list[i].prompt = messages_list[i]

\* C2: in every reachable state of a batch at most num_concurrent tasks hold
\* a semaphore slot, so at most num_concurrent remote calls (first attempts
\* and retries alike) are in flight.
C2_gate_bounds_in_flight_calls ==
    mode = "async" => Cardinality(Holders) <= num_concurrent

\* The gate is full, a task waits on it, and a holder is in a retry.
C2_witness ==
    /\ mode = "async"
    /\ Cardinality(Holders) = num_concurrent
    /\ \E i \in Tasks : pc[i] = "pending"
    /\ \E i \in Holders : Len(calls[i]) >= 1

\* C3: a request whose every remote call raised ends, when entered with
\* retry budget num_retries, after exactly num_retries + 1 calls, as None.
C3_exhaustion_makes_r_plus_1_calls ==
    \A i \in Tasks :
        (pc[i] = "done" /\ AllCalls(i, "raise")) =>
            (Len(calls[i]) = num_retries + 1 /\ Result(i) = None)

\* C4: a request whose every remote call succeeded with a response the
\* caller's validator rejects ends after exactly num_retries + 1 calls, as None.
C4_rejection_makes_r_plus_1_calls ==
    \A i \in Tasks :
        (pc[i] = "done" /\ validation_cb = "strict" /\ AllCalls(i, "bad")) =>
            (Len(calls[i]) = num_retries + 1 /\ Result(i) = None)

\* C5: every value other than None that a request resolves to is a response
\* the caller's validator accepts for that request.
C5_returned_response_was_accepted ==
    \A i \in Tasks :
        (pc[i] = "done" /\ Result(i) # None) =>
            Validate(validation_cb, messages_list[i], Result(i))

\* C6: in a batch where each request either fails on every remote call or
\* gets acceptable responses, async_chat_completions, once it has ended other
\* than by its timeout, has returned a full-length list with None exactly at
\* the always-failing requests: no request's failure fails the batch call.
C6_failure_isolation ==
    (/\ mode = "async"
     /\ dispatch \notin {"waiting", "TimeoutError"}
     /\ \A i \in Tasks : AllCalls(i, "raise") \/ AllCalls(i, "good")) =>
        /\ dispatch = "returned"
        /\ Len(cc_list) = N
        /\ \A i \in Tasks : (cc_list[i] = None) <=> AllCalls(i, "raise")

\* C7: async_chat_completions returns a list only when every task has
\* finished, and then the full list; once the timeout has been signalled no
\* list is ever returned and the signal stands; and with a timeout set the
\* call always ends, even if remote calls never return.
C7_timeout_is_signalled ==
    /\ [](mode = "async" =>
            /\ dispatch = "returned" => (AllDone /\ Len(cc_list) = N)
            /\ dispatch = "TimeoutError" => cc_list = <<>>)
    /\ [][dispatch = "TimeoutError" => dispatch' = "TimeoutError"]_vars
    /\ ((mode = "async" /\ timeout = "set") ~> (dispatch # "waiting"))

\* The timeout was signalled while one task had resolved and another was
\* still in a remote call.
C7_witness ==
    /\ dispatch = "TimeoutError"
    /\ \E i \in Tasks : pc[i] = "done"
    /\ \E i \in Tasks : pc[i] = "calling" /\ Len(calls[i]) >= 1

\* C8: the number of free semaphore slots is always between 0 and
\* num_concurrent, every task that holds a slot accounts for exactly one
\* missing slot, and all slots are free once every task has finished,
\* whether it ended with a response or with None.
C8_gate_released_on_all_paths ==
    mode = "async" =>
        /\ semaphore \in 0..num_concurrent
        /\ semaphore = num_concurrent - Cardinality(Holders)
        /\ AllDone => semaphore = num_concurrent

\* Every task finished, one with None after a retry and one with a response.
C8_witness ==
    /\ mode = "async"
    /\ AllDone
    /\ \E i \in Tasks : taskResult[i] = None /\ Len(calls[i]) >= 2
    /\ \E i \in Tasks : taskResult[i] # None
    /\ semaphore = num_concurrent

\* C9: the budget carried by the invoker and handed to attempt_retry is
\* always within 0..num_retries, and a request is given up as None only
\* when the budget handed to attempt_retry is exactly 0.
C9_budget_within_bounds ==
    \A i \in Tasks :
        /\ budget[i] \in 0..num_retries
        /\ \A j \in 1..Len(retryArgs[i]) : retryArgs[i][j] \in 0..num_retries
        /\ (pc[i] = "done" /\ Result(i) = None) =>
              (retryArgs[i] # <<>> /\ retryArgs[i][Len(retryArgs[i])] = 0)

\* C10: with num_retries = 0 a request never makes more than one remote
\* call; it ends after exactly one, with the response if the call succeeded
\* and the caller's validator accepts it, and with None otherwise.
C10_zero_budget_single_attempt ==
    num_retries = 0 =>
        \A i \in Tasks :
            /\ Len(calls[i]) <= 1
            /\ pc[i] = "done" =>
                  /\ Len(calls[i]) = 1
                  /\ LET response == parse_chat_completion_response(
                                         create(messages_list[i], calls[i][1]))
                     IN  IF calls[i][1] # "raise"
                            /\ Validate(validation_cb, messages_list[i], response)
                         THEN Result(i) = response
                         ELSE Result(i) = None

\* chat_completions ran with num_retries = 0: one request was rejected by the
\* caller's validator and one was accepted, each after a single call.
C10_witness ==
    /\ mode = "sync"
    /\ num_retries = 0
    /\ validation_cb = "strict"
    /\ dispatch = "returned"
    /\ \E i \in Tasks : calls[i] = <<"bad">> /\ cc_list[i] = None
    /\ \E i \in Tasks : calls[i] = <<"good">> /\ cc_list[i] # None

\* C11: once async_chat_completions has signalled its timeout, no task of the
\* batch is waiting on the semaphore or running, and no remote call of the
\* batch is in flight.
C11_no_task_outlives_timeout ==
    dispatch = "TimeoutError" =>
        \A i \in Tasks : pc[i] \notin {"pending", "calling"} /\ inflight[i] = 0

\* C12: transport failures and validator rejections draw on the same budget:
\* the remote calls made for one request, returned or in flight, never
\* number more than num_retries + 1.
C12_calls_within_shared_budget ==
    \A i \in Tasks : Len(calls[i]) + inflight[i] <= num_retries + 1

\* A request was given up after a validator rejection followed by a
\* transport failure.
C12_witness ==
    \E i \in Tasks :
        /\ pc[i] = "done"
        /\ Result(i) = None
        /\ validation_cb = "strict"
        /\ calls[i] = <<"bad", "raise">>

\* C13: a task moves only from pending to running (taking one semaphore slot
\* and issuing its first remote call), from running to running by a retry
\* (one more call), or from running to resolved; a resolved task stays
\* resolved, makes no further remote call and keeps its value.
C13_task_state_machine ==
    [][\A i \in Tasks :
          /\ pc[i] = "pending" =>
                \/ pc'[i] = "pending" /\ calls'[i] = <<>> /\ inflight'[i] = 0
                \/ /\ pc'[i] = "calling"
                   /\ calls'[i] = <<>>
                   /\ inflight'[i] = 1
                   /\ mode = "async" => semaphore' = semaphore - 1
          /\ pc[i] = "calling" =>
                \/ pc'[i] = "calling" /\ calls'[i] = calls[i]
                \/ /\ pc'[i] = "calling"
                   /\ Len(calls'[i]) = Len(calls[i]) + 1
                   /\ budget'[i] < budget[i]
                   /\ inflight'[i] = 1
                \/ /\ pc'[i] = "done"
                   /\ Len(calls'[i]) = Len(calls[i]) + 1
                   /\ inflight'[i] = 0
          /\ pc[i] = "done" =>
                /\ pc'[i] = "done"
                /\ calls'[i] = calls[i]
                /\ inflight'[i] = 0
                /\ Result(i)' = Result(i)
      ]_vars

\* One task resolved to a response after a retry, another to None.
C13_witness ==
    /\ mode = "async"
    /\ \E i \in Tasks : pc[i] = "done" /\ Len(calls[i]) = 2 /\ taskResult[i] # None
    /\ \E i \in Tasks : pc[i] = "done" /\ taskResult[i] = None

\* C14: a batch run without timeout stops only when async_chat_completions
\* has returned the complete list: whenever no step of the batch is left to
\* take, every task has resolved (none is left waiting on the semaphore) and
\* the full-length list has been returned.
C14_batch_ends_with_complete_list ==
    (mode = "async" /\ timeout = "None" /\ ~ENABLED Next) =>
        (dispatch = "returned" /\ AllDone /\ Len(cc_list) = N)

\* C15: every retry runs with the validator of the first attempt and with a
\* budget lower by one per attempt made: the frame at its remote call
\* carries the caller's validation callback and num_retries minus the number
\* of calls already returned.
C15_retry_reuses_first_attempt_arguments ==
    \A i \in Tasks :
        pc[i] = "calling" =>
            /\ vcb[i] = validation_cb
            /\ budget[i] = num_retries - Len(calls[i])

\* The remote outcomes every request of the batch met, replayed by the
\* sequential runner.
SequentialReplay == chat_completions_on(messages_list, num_retries, validation_cb, calls)

\* C16: whenever async_chat_completions ends other than by its timeout, it
\* has returned the list chat_completions returns for the same requests met
\* with the same remote outcomes and validator verdicts.
C16_concurrent_equals_sequential ==
    (mode = "async" /\ dispatch \notin {"waiting", "TimeoutError"}) =>
        /\ dispatch = "returned"
        /\ cc_list = SequentialReplay

\* C17: fed the remote outcomes an async_chat_completion run has met so far,
\* chat_completion makes the same number of calls, is at a remote call
\* exactly when the asynchronous run is, and ends with the same value.
C17_async_invoker_equals_sync ==
    mode = "async" =>
        \A i \in Tasks :
            LET sync == chat_completion_on(messages_list[i], num_retries, validation_cb,
                                           calls[i], 0)
            IN  /\ sync.calls = Len(calls[i])
                /\ pc[i] = "calling" => ~sync.ended
                /\ pc[i] = "done" => (sync.ended /\ sync.value = taskResult[i])

\* One asynchronous run ended in None after a retry, another returned the
\* response of its retry.
C17_witness ==
    /\ mode = "async"
    /\ \E i \in Tasks : pc[i] = "done" /\ Len(calls[i]) = 2 /\ taskResult[i] = None
    /\ \E i \in Tasks : pc[i] = "done" /\ Len(calls[i]) = 2 /\ taskResult[i] # None

\* C18: a request never has more than one remote call in flight, and a call
\* is in flight after earlier ones only if each earlier call raised or
\* returned a response the caller's validator rejects.
C18_retries_are_sequential ==
    \A i \in Tasks :
        /\ inflight[i] \in {0, 1}
        /\ inflight[i] = 1 <=> pc[i] = "calling"
        /\ inflight[i] = 1 =>
              \A j \in 1..Len(calls[i]) :
                  \/ calls[i][j] = "raise"
                  \/ ~Validate(validation_cb, messages_list[i],
                               parse_chat_completion_response(
                                   create(messages_list[i], calls[i][j])))

\* Two requests are each in a retry at the same time, one call in flight each.
C18_witness ==
    /\ mode = "async"
    /\ \E i, j \in Tasks :
          /\ i # j
          /\ inflight[i] = 1 /\ Len(calls[i]) >= 1
          /\ inflight[j] = 1 /\ Len(calls[j]) >= 1

====
